---- MODULE Spec2Model ----
(* Fish Pond Water Quality Monitor (src/app.py): the Streamlit script as a  *)
(* state machine. Every user interaction reruns the script once; a run      *)
(* renders exactly one of the pages Dashboard, Farmer Input, Evaluation.    *)
(* st.session_state is the only state a run hands to the next one.          *)
(*                                                                          *)
(* Numbers are exact decimals held as integers in hundredths: 25 is 2500,   *)
(* 6.5 is 650, 0.05 is 5 and 0.1 is 10.                                     *)
EXTENDS Integers, Sequences, FiniteSets, TLC

VARIABLES
    page,            \* the sidebar radio's choice in the last run
    parameter,       \* the Dashboard's selectbox (its first option elsewhere)
    df,              \* load_data(): the dataset columns that hold data
    session_state,   \* st.session_state: a mapping with at most the key "inputs"
    submitted,       \* st.form_submit_button's value in the last run
    defined,         \* the names the Evaluation page bound in the last run
    status,          \* status: <<[param, status]>> in data.items() order
    df_eval,         \* df_eval: its rows, in order
    status_counts,   \* status_counts: Status -> Count, for the statuses present
    messages,        \* the st.info/success/warning/error calls of the page, in order
    exception,       \* the exception that ended the last run, or "None"
    ever_submitted,  \* history: some run had submitted = True
    last_submitted   \* history: the reading of the latest such run

vars == <<page, parameter, df, session_state, submitted, defined, status,
          df_eval, status_counts, messages, exception, ever_submitted,
          last_submitted>>

-----------------------------------------------------------------------------
(* Bounds of the model *)

\* how far beyond each threshold the sampled values reach, in hundredths
Margin == 1

\* the longest reading handed directly to the Evaluation page
MaxParams == 2

-----------------------------------------------------------------------------
(* Configuration *)

DISPLAY_TO_DF ==
    [pH |-> "ph", Temperature |-> "Temperature", Ammonia |-> "Ammonia"]
    @@ ("Dissolved Oxygen" :> "Dissolved_Oxygen")

safe_ranges ==
    [Temperature |-> <<2500, 3000>>, pH |-> <<650, 850>>, Ammonia |-> <<0, 5>>]
    @@ ("Dissolved Oxygen" :> <<500, 1000>>)

\* the Farmer Input form's number_input widgets: (min_value, max_value)
number_input ==
    [Temperature |-> <<0, 5000>>, Ammonia |-> <<0, 500>>, pH |-> <<0, 1400>>]
    @@ ("Dissolved Oxygen" :> <<0, 1500>>)

Statuses == {"Safe", "Low", "High", "Risky", "Unsafe"}

-----------------------------------------------------------------------------
(* check_status *)

\* check_status with exclusive bounds: a value on a bound is out of range
check_status_exclusive(param, value) ==
    IF param \notin DOMAIN safe_ranges
    THEN "KeyError"
    ELSE LET low  == safe_ranges[param][1]
             high == safe_ranges[param][2]
         IN  IF param = "Ammonia"
             THEN IF value <= high THEN "Safe"
                  ELSE IF value <= 10 THEN "Risky"
                  ELSE "Unsafe"
             ELSE IF value <= low THEN "Low"
             ELSE IF value >= high THEN "High"
             ELSE "Safe"

\* check_status with Ammonia's lower bound used as a floor
check_status_floor(param, value) ==
    IF param \notin DOMAIN safe_ranges
    THEN "KeyError"
    ELSE LET low  == safe_ranges[param][1]
             high == safe_ranges[param][2]
         IN  IF value < low THEN "Low"
             ELSE IF param = "Ammonia"
             THEN IF value <= high THEN "Safe"
                  ELSE IF value <= 10 THEN "Risky"
                  ELSE "Unsafe"
             ELSE IF value > high THEN "High"
             ELSE "Safe"

check_status(param, value) ==
    IF param \notin DOMAIN safe_ranges
    THEN "KeyError"
    ELSE LET low  == safe_ranges[param][1]
             high == safe_ranges[param][2]
         IN  IF param = "Ammonia"
             THEN IF value <= high THEN "Safe"
                  ELSE IF value <= 10 THEN "Risky"
                  ELSE "Unsafe"
             ELSE IF value < low THEN "Low"
             ELSE IF value > high THEN "High"
             ELSE "Safe"

-----------------------------------------------------------------------------
(* The Evaluation page's pure steps *)

Item(param, value) == [param |-> param, value |-> value]

\* status = {param: check_status(param, val) for param, val in data.items()}:
\* built left to right; a KeyError in check_status ends the comprehension and
\* leaves nothing bound.
RECURSIVE StatusItems(_, _)
StatusItems(items, acc) ==
    IF items = <<>>
    THEN [exception |-> "None", status |-> acc]
    ELSE LET s == check_status(Head(items).param, Head(items).value)
         IN  IF s = "KeyError"
             THEN [exception |-> "KeyError", status |-> <<>>]
             ELSE StatusItems(Tail(items),
                              Append(acc, [param |-> Head(items).param, status |-> s]))

\* the comprehension with a default status for a parameter without a range
RECURSIVE StatusItems_default(_, _)
StatusItems_default(items, acc) ==
    IF items = <<>>
    THEN [exception |-> "None", status |-> acc]
    ELSE LET s == check_status(Head(items).param, Head(items).value)
             d == IF s = "KeyError" THEN "Safe" ELSE s
         IN  StatusItems_default(Tail(items),
                                 Append(acc, [param |-> Head(items).param, status |-> d]))

StatusComprehension_default(data) == StatusItems_default(data, <<>>)

\* the comprehension keyed by the dataset's column names
RECURSIVE StatusItems_df_keys(_, _)
StatusItems_df_keys(items, acc) ==
    IF items = <<>>
    THEN [exception |-> "None", status |-> acc]
    ELSE LET s == check_status(Head(items).param, Head(items).value)
         IN  IF s = "KeyError"
             THEN [exception |-> "KeyError", status |-> <<>>]
             ELSE StatusItems_df_keys(Tail(items),
                     Append(acc, [param  |-> DISPLAY_TO_DF[Head(items).param],
                                  status |-> s]))

StatusComprehension_df_keys(data) == StatusItems_df_keys(data, <<>>)

StatusComprehension(data) == StatusItems(data, <<>>)

\* pd.DataFrame({"Parameter": ..., "Value": ..., "Status": ...})
EvalFrame(data, st) ==
    [i \in 1..Len(data) |->
        [Parameter |-> data[i].param,
         Value     |-> data[i].value,
         Status    |-> st[i].status]]

\* df_eval["Ideal Min"], df_eval["Ideal Max"]: the bounds of each row's parameter
WithIdealRange(frame) ==
    [i \in 1..Len(frame) |->
        [Parameter |-> frame[i].Parameter,
         Value     |-> frame[i].Value,
         Status    |-> frame[i].Status,
         IdealMin  |-> safe_ranges[frame[i].Parameter][1],
         IdealMax  |-> safe_ranges[frame[i].Parameter][2]]]

\* df_eval["Status"].value_counts(): one row per status that occurs, with the
\* number of rows that carry it (the row order is display only)
\* nunique in place of value_counts: every status that occurs counts once
value_counts_unique(frame) ==
    [s \in {frame[i].Status : i \in DOMAIN frame} |-> 1]

value_counts(frame) ==
    [s \in {frame[i].Status : i \in DOMAIN frame} |->
        Cardinality({i \in DOMAIN frame : frame[i].Status = s})]

Msg(level, text, param) == [level |-> level, text |-> text, param |-> param]

\* the recommendations loop's branch for one parameter
\* the loop with "High" listed among the warnings
Recommendation_high_warns(param, s) ==
    IF s = "Safe" THEN Msg("success", "within safe range", param)
    ELSE IF s \in {"Low", "High", "Risky"} THEN Msg("warning", "slightly out of range", param)
    ELSE Msg("error", "unsafe", param)

Recommendation(param, s) ==
    IF s = "Safe" THEN Msg("success", "within safe range", param)
    ELSE IF s \in {"Low", "Risky"} THEN Msg("warning", "slightly out of range", param)
    ELSE Msg("error", "unsafe", param)

Recommendations(st) ==
    [i \in 1..Len(st) |-> Recommendation(st[i].param, st[i].status)]

\* the final verdict
\* any() in place of all()
FinalVerdict_any(st) ==
    IF \E i \in DOMAIN st : st[i].status = "Safe"
    THEN Msg("success", "healthy", "")
    ELSE Msg("error", "not suitable", "")

FinalVerdict(st) ==
    IF \A i \in DOMAIN st : st[i].status = "Safe"
    THEN Msg("success", "healthy", "")
    ELSE Msg("error", "not suitable", "")

-----------------------------------------------------------------------------
(* The values the model draws *)

NoState == [k \in {} |-> <<>>]
NoCounts == [s \in {} |-> 0]

\* around each threshold of a parameter, on its outer side
Samples(p) ==
    IF p \in DOMAIN safe_ranges
    THEN LET low  == safe_ranges[p][1]
             high == safe_ranges[p][2]
         IN  ((low - Margin)..low) \cup (high..(high + Margin))
             \cup (IF p = "Ammonia" THEN 10..(10 + Margin) ELSE {})
    ELSE 0..Margin

\* what the form's number_input accepts of them
FormValues(p) ==
    {v \in Samples(p) : number_input[p][1] <= v /\ v <= number_input[p][2]}

-----------------------------------------------------------------------------
(* The pages *)

DashboardMessages(p) ==
    LET df_col == DISPLAY_TO_DF[p]
        no_data == IF df_col \notin df
                   THEN <<Msg("info", "no data for distribution", p),
                          Msg("info", "no data for box plot", p)>>
                   ELSE <<>>
    IN  no_data \o <<Msg("success", "dashboard loaded", "")>>

NothingEvaluated ==
    /\ defined' = {}
    /\ status' = <<>>
    /\ df_eval' = <<>>
    /\ status_counts' = NoCounts
    /\ exception' = "None"

\* the Dashboard with the session reset on entry
Dashboard_clears(p) ==
    /\ page' = "Dashboard"
    /\ parameter' = p
    /\ submitted' = FALSE
    /\ messages' = DashboardMessages(p)
    /\ NothingEvaluated
    /\ session_state' = NoState
    /\ UNCHANGED <<df, ever_submitted, last_submitted>>

Dashboard(p) ==
    /\ page' = "Dashboard"
    /\ parameter' = p
    /\ submitted' = FALSE
    /\ messages' = DashboardMessages(p)
    /\ NothingEvaluated
    /\ UNCHANGED <<df, session_state, ever_submitted, last_submitted>>

FarmerInput ==
    /\ page' = "Farmer Input"
    /\ parameter' = "pH"
    /\ submitted' = FALSE
    /\ messages' = <<>>
    /\ NothingEvaluated
    /\ UNCHANGED <<df, session_state, ever_submitted, last_submitted>>

\* the literal with the dataset's column name for dissolved oxygen
FormReading_df_key(temp, do, ammonia, ph) ==
    <<Item("Temperature", temp), Item("Dissolved_Oxygen", do),
      Item("Ammonia", ammonia), Item("pH", ph)>>

\* {"Temperature": temp, "Dissolved Oxygen": do, "Ammonia": ammonia, "pH": ph}
FormReading(temp, do, ammonia, ph) ==
    <<Item("Temperature", temp), Item("Dissolved Oxygen", do),
      Item("Ammonia", ammonia), Item("pH", ph)>>

\* pressing "Analyze Pond Water" on the rendered form
Submit(temp, do, ammonia, ph) ==
    /\ page = "Farmer Input"
    /\ page' = "Farmer Input"
    /\ parameter' = "pH"
    /\ submitted' = TRUE
    /\ session_state' = [inputs |-> FormReading(temp, do, ammonia, ph)]
    /\ messages' = <<Msg("success", "data submitted", "")>>
    /\ ever_submitted' = TRUE
    /\ last_submitted' = session_state'.inputs
    /\ NothingEvaluated
    /\ UNCHANGED df

EvaluationRun ==
    /\ page' = "Evaluation"
    /\ parameter' = "pH"
    /\ submitted' = FALSE
    /\ IF "inputs" \notin DOMAIN session_state
       THEN /\ messages' = <<Msg("warning", "enter data first", "")>>
            /\ NothingEvaluated
       ELSE LET data == session_state["inputs"]
                comp == StatusComprehension(data)
            IN  IF comp.exception # "None"
                THEN /\ exception' = comp.exception
                     /\ defined' = {"data", "safe_ranges", "check_status"}
                     /\ status' = <<>>
                     /\ df_eval' = <<>>
                     /\ status_counts' = NoCounts
                     /\ messages' = <<>>
                ELSE LET frame == EvalFrame(data, comp.status)
                     IN  /\ defined' = {"data", "safe_ranges", "check_status",
                                        "status", "df_eval", "status_counts"}
                         /\ status' = comp.status
                         /\ status_counts' = value_counts(frame)
                         /\ IF \E i \in DOMAIN frame :
                                  frame[i].Parameter \notin DOMAIN safe_ranges
                            THEN \* ideal_min's lookup raises after the pie chart
                                 /\ exception' = "KeyError"
                                 /\ df_eval' = frame
                                 /\ messages' = <<>>
                            ELSE /\ exception' = "None"
                                 /\ df_eval' = WithIdealRange(frame)
                                 /\ messages' = Recommendations(comp.status)
                                                \o <<FinalVerdict(comp.status)>>

\* the Evaluation page consuming the reading: session_state.pop("inputs")
Evaluation_pops ==
    /\ EvaluationRun
    /\ session_state' = NoState
    /\ UNCHANGED <<df, ever_submitted, last_submitted>>

Evaluation ==
    /\ EvaluationRun
    /\ UNCHANGED <<df, session_state, ever_submitted, last_submitted>>

-----------------------------------------------------------------------------
(* The session: the first run renders the Dashboard with the widgets' defaults *)

Datasets == {{}, {"ph", "Temperature", "Dissolved_Oxygen", "Ammonia"}}

Init ==
    /\ df \in Datasets
    /\ page = "Dashboard"
    /\ parameter = "pH"
    /\ submitted = FALSE
    /\ session_state = NoState
    /\ messages = (IF "ph" \notin df
                   THEN <<Msg("info", "no data for distribution", "pH"),
                          Msg("info", "no data for box plot", "pH")>>
                   ELSE <<>>) \o <<Msg("success", "dashboard loaded", "")>>
    /\ defined = {}
    /\ status = <<>>
    /\ df_eval = <<>>
    /\ status_counts = NoCounts
    /\ exception = "None"
    /\ ever_submitted = FALSE
    /\ last_submitted = <<>>

Next ==
    \/ \E p \in DOMAIN DISPLAY_TO_DF : Dashboard(p)
    \/ FarmerInput
    \/ \E temp \in FormValues("Temperature"), do \in FormValues("Dissolved Oxygen"),
          ammonia \in FormValues("Ammonia"), ph \in FormValues("pH") :
            Submit(temp, do, ammonia, ph)
    \/ Evaluation

Spec == Init /\ [][Next]_vars

-----------------------------------------------------------------------------
(* The Evaluation page on its own: the reading in st.session_state["inputs"] *)
(* is whatever mapping the caller left there, of any keys and values.        *)

AnyParams == DOMAIN safe_ranges \cup {"Salinity"}

Keys(reading) == {reading[i].param : i \in DOMAIN reading}

\* the readings of exactly n distinct parameters, in every order
RECURSIVE ReadingsOfLen(_)
ReadingsOfLen(n) ==
    IF n = 0
    THEN {<<>>}
    ELSE UNION {{Append(r, Item(p, v)) : v \in Samples(p)} :
                    <<r, p>> \in {<<r, p>> \in ReadingsOfLen(n - 1) \X AnyParams :
                                    p \notin Keys(r)}}

\* the three end-to-end readings: all safe, Temperature 20, Ammonia 0.2
Scenarios ==
    {FormReading(2700, 700, 2, 720),
     FormReading(2000, 700, 2, 720),
     FormReading(2700, 700, 20, 720)}

\* of one to MaxParams parameters, and the three end-to-end readings
Readings == UNION {ReadingsOfLen(n) : n \in 1..MaxParams} \cup Scenarios

InitEval ==
    /\ df \in Datasets
    /\ session_state \in {[inputs |-> r] : r \in Readings}
    /\ page = "Farmer Input"
    /\ parameter = "pH"
    /\ submitted = TRUE
    /\ messages = <<Msg("success", "data submitted", "")>>
    /\ defined = {}
    /\ status = <<>>
    /\ df_eval = <<>>
    /\ status_counts = NoCounts
    /\ exception = "None"
    /\ ever_submitted = TRUE
    /\ last_submitted = session_state.inputs

NextEval == Evaluation

SpecEval == InitEval /\ [][NextEval]_vars

-----------------------------------------------------------------------------
(* Properties *)

\* the reading the Evaluation page reads
Data == session_state["inputs"]

HasInputs == "inputs" \in DOMAIN session_state

\* the last run was the Evaluation page and it bound status
Evaluated == page = "Evaluation" /\ "status" \in defined

\* the last message of the page
Verdict == messages[Len(messages)]

Healthy == Msg("success", "healthy", "")
NotSuitable == Msg("error", "not suitable", "")

RangeParams == {"Temperature", "Dissolved Oxygen", "pH"}

\* C1: for Temperature, Dissolved Oxygen and pH the status is Low exactly when
\* the value is below the parameter's low bound, High exactly when it is above
\* the high bound and Safe exactly when it lies between them, both bounds
\* included; it is never Risky or Unsafe.
C1_RangeStatus ==
    Evaluated =>
        \A i \in DOMAIN status :
            LET p    == Data[i].param
                v    == Data[i].value
                s    == status[i].status
                low  == safe_ranges[p][1]
                high == safe_ranges[p][2]
            IN  p \in RangeParams =>
                    /\ status[i].param = p
                    /\ (s = "Low") <=> (v < low)
                    /\ (s = "High") <=> (v > high)
                    /\ (s = "Safe") <=> (low <= v /\ v <= high)
                    /\ s \notin {"Risky", "Unsafe"}

\* a reading with Temperature on its low bound, Safe, and pH just above its
\* high bound, High
C1_Witness ==
    /\ Evaluated
    /\ \E i, j \in DOMAIN status :
        /\ Data[i] = Item("Temperature", 2500) /\ status[i].status = "Safe"
        /\ Data[j] = Item("pH", 851) /\ status[j].status = "High"

\* C2: for Ammonia the status is Safe exactly when the value is at most 0.05,
\* Risky exactly when it is above 0.05 and at most 0.1, Unsafe exactly when it
\* is above 0.1; it is never Low or High, not even below the lower bound 0.
C2_AmmoniaStatus ==
    Evaluated =>
        \A i \in DOMAIN status :
            LET v == Data[i].value
                s == status[i].status
            IN  Data[i].param = "Ammonia" =>
                    /\ status[i].param = "Ammonia"
                    /\ (s = "Safe") <=> (v <= 5)
                    /\ (s = "Risky") <=> (5 < v /\ v <= 10)
                    /\ (s = "Unsafe") <=> (v > 10)
                    /\ s \notin {"Low", "High"}

\* an Ammonia value below 0, classified Safe
C2_Witness ==
    /\ Evaluated
    /\ \E i \in DOMAIN status :
        /\ Data[i].param = "Ammonia" /\ Data[i].value < 0
        /\ status[i].status = "Safe"

\* C3: the verdict is the healthy one exactly when every parameter's status is
\* Safe and the not-suitable one exactly when some status is Low, High, Risky
\* or Unsafe; the all-safe reading gives healthy, the readings with
\* Temperature 20 or Ammonia 0.2 give not suitable.
C3_Verdict ==
    Evaluated /\ exception = "None" =>
        /\ (Verdict = Healthy) <=> (\A i \in DOMAIN status : status[i].status = "Safe")
        /\ (Verdict = NotSuitable) <=>
                (\E i \in DOMAIN status :
                    status[i].status \in {"Low", "High", "Risky", "Unsafe"})
        /\ Data = FormReading(2700, 700, 2, 720) => Verdict = Healthy
        /\ Data = FormReading(2000, 700, 2, 720) => Verdict = NotSuitable
        /\ Data = FormReading(2700, 700, 20, 720) => Verdict = NotSuitable

\* the reading with Temperature 20: one status is Low, the others Safe
C3_Witness ==
    /\ Evaluated
    /\ Data = FormReading(2000, 700, 2, 720)
    /\ status[1].status = "Low"
    /\ \A i \in 2..4 : status[i].status = "Safe"
    /\ Verdict = NotSuitable

UnknownParameter == HasInputs /\ \E i \in DOMAIN Data : Data[i].param \notin DOMAIN safe_ranges

NoPartialResult ==
    /\ defined \cap {"status", "df_eval", "status_counts"} = {}
    /\ status = <<>>
    /\ df_eval = <<>>
    /\ status_counts = NoCounts
    /\ messages = <<>>

C5_SameKeys ==
    page = "Evaluation" /\ HasInputs /\ ~UnknownParameter =>
        /\ Evaluated
        /\ Len(status) = Len(Data)
        /\ {status[i].param : i \in DOMAIN status} = Keys(Data)
        /\ Cardinality({status[i].param : i \in DOMAIN status}) = Len(status)
        /\ \A i \in DOMAIN status : status[i].status \in Statuses

\* a reading of pH and Dissolved Oxygen alone
C5_Witness ==
    /\ Evaluated
    /\ Keys(Data) = {"pH", "Dissolved Oxygen"}
    /\ {status[i].param : i \in DOMAIN status} = {"pH", "Dissolved Oxygen"}

RECURSIVE SumCounts(_, _)
SumCounts(counts, keys) ==
    IF keys = {}
    THEN 0
    ELSE LET k == CHOOSE x \in keys : TRUE
         IN  counts[k] + SumCounts(counts, keys \ {k})

\* C6: the count reported for a status is the number of the reading's
\* parameters with that status, the statuses reported are those that occur,
\* and the counts add up to the number of parameters.
C6_Counts ==
    Evaluated =>
        /\ DOMAIN status_counts = {status[i].status : i \in DOMAIN status}
        /\ \A s \in DOMAIN status_counts :
              status_counts[s] = Cardinality({i \in DOMAIN status : status[i].status = s})
        /\ SumCounts(status_counts, DOMAIN status_counts) = Len(Data)

\* two parameters share a status and the other two have one each
C6_Witness ==
    /\ Evaluated
    /\ Len(Data) = 4
    /\ Cardinality(DOMAIN status_counts) = 3
    /\ \E s \in DOMAIN status_counts : status_counts[s] = 2

\* C7: a run of the Evaluation page leaves the stored reading as it was, and a
\* run that follows another with no submission in between gives the same
\* statuses, frame, counts, messages and verdict.
C7_Idempotent ==
    [][page' = "Evaluation" =>
          /\ session_state' = session_state
          /\ page = "Evaluation" =>
                <<defined', status', df_eval', status_counts', messages', exception'>>
                    = <<defined, status, df_eval, status_counts, messages, exception>>]_vars

\* an evaluation of a submitted reading with a status that is not Safe
C7_Witness ==
    /\ Evaluated
    /\ ever_submitted
    /\ Data = last_submitted
    /\ Verdict = NotSuitable

\* C8: the Evaluation page computes statuses and a verdict only after some
\* submission, and shows only the warning before; what it evaluates is the
\* reading of the latest submission, whatever pages were visited since.
C8_LatestSubmission ==
    page = "Evaluation" =>
        IF ever_submitted
        THEN /\ Evaluated
             /\ Len(df_eval) = Len(last_submitted)
             /\ \A i \in DOMAIN df_eval :
                    /\ df_eval[i].Parameter = last_submitted[i].param
                    /\ df_eval[i].Value = last_submitted[i].value
             /\ Verdict \in {Healthy, NotSuitable}
        ELSE /\ messages = <<Msg("warning", "enter data first", "")>>
             /\ defined = {}
             /\ status = <<>>
             /\ status_counts = NoCounts

\* an evaluation after a submission
C8_Witness ==
    /\ page = "Evaluation"
    /\ ever_submitted
    /\ Len(df_eval) = 4
    /\ df_eval[3].Value = last_submitted[3].value
    /\ df_eval[3].Status = "Unsafe"

\* C9: one recommendation per parameter, success for Safe, warning for Low and
\* Risky, error for High and Unsafe; the verdict is not suitable exactly when
\* some recommendation is a warning or an error, healthy exactly when all are
\* successes.
C9_Recommendations ==
    Evaluated =>
        LET recs == SubSeq(messages, 1, Len(messages) - 1)
        IN  /\ Len(recs) = Len(Data)
            /\ \A i \in DOMAIN recs :
                  /\ recs[i].param = Data[i].param
                  /\ status[i].param = Data[i].param
                  /\ (recs[i].level = "success") <=> (status[i].status = "Safe")
                  /\ (recs[i].level = "warning") <=> (status[i].status \in {"Low", "Risky"})
                  /\ (recs[i].level = "error") <=> (status[i].status \in {"High", "Unsafe"})
            /\ (Verdict = NotSuitable) <=>
                  (\E i \in DOMAIN recs : recs[i].level \in {"warning", "error"})
            /\ (Verdict = Healthy) <=>
                  (\A i \in DOMAIN recs : recs[i].level = "success")

\* a warning, an error and two successes
C9_Witness ==
    /\ Evaluated
    /\ Len(messages) = 5
    /\ status[1].status = "High" /\ messages[1].level = "error"
    /\ status[3].status = "Risky" /\ messages[3].level = "warning"
    /\ messages[2].level = "success" /\ messages[4].level = "success"
    /\ Verdict = NotSuitable

\* C10: the stored reading is absent or has exactly the keys Temperature,
\* Dissolved Oxygen, Ammonia and pH, each with a range; the range lookup never
\* fails.
C10_FormKeys ==
    /\ HasInputs =>
          /\ Len(Data) = 4
          /\ Keys(Data) = {"Temperature", "Dissolved Oxygen", "Ammonia", "pH"}
          /\ Keys(Data) \subseteq DOMAIN safe_ranges
    /\ exception = "None"

\* an evaluation of a stored reading
C10_Witness ==
    /\ HasInputs
    /\ Evaluated
    /\ Len(status) = 4

====
